---- MODULE Spec2Model ----
(***************************************************************************)
(* Model of the spectral matching tool: the convex-hull continuum removal  *)
(* of my_module.py and the selection / replot logic of the viewer in       *)
(* usgs_telescope.py.                                                      *)
(*                                                                         *)
(* Numbers: the arrays hold integers; every quotient the code forms        *)
(* (a slope, an interpolated value, a ratio) is kept as an exact fraction  *)
(* <<numerator, denominator>> and compared by sign-aware cross             *)
(* multiplication, so the model is the code in exact arithmetic.           *)
(* Indices are 0-based as in the source; Idx and Put translate them.       *)
(***************************************************************************)
EXTENDS Integers, Sequences, FiniteSets, TLC

\* ------------------------------------------------------------- bounds
MaxLen == 4      \* longest array handed to an entry point
MaxX == 3        \* wavelengths are drawn from 0..MaxX
MaxY == 2        \* reflectances are drawn from 0..MaxY
NEntries == 3    \* entries of the spectral library shown by the viewer

\* np.nan, the filler of the hull buffers (an integer no input uses)
NaN == -999

VARIABLES
    pc,              \* "idle", "loop" (at the while test of the for body), "interp", "done"
    fn,              \* entry point of the running call: "upper", "lower", "cr"
    continuum_type,  \* continuum_removal's type code ("" for a hull call)
    x, y,            \* the locals x and y (continuum_removal rebinds them to the window)
    hullx, hully,    \* the hull buffers of size n
    nh,              \* hull size
    i,               \* the for loop's index
    windowed,        \* observer: the windowing lines of continuum_removal ran
    npush, npop,     \* observers: per input position, writes into / deletions from the hull
    result,          \* what the call returned or raised
    turn,            \* last call of left_turn_for_convex_hull on six scalars
    pair,            \* two continuum_removal calls differing in the outer bounds
    entries,                 \* SpectralExplorerApp.entries
    current_spectrum_name,   \* 0 stands for None
    current_x, current_y,    \* <<>> with have_data = FALSE stands for None
    have_data,
    continuum_removal_flag,
    selected,                \* selected item of results_list, 0 for none
    plot_call,               \* arguments of the last _plot_spectrum call
    axes                     \* what the axes show

hullvars == <<pc, fn, continuum_type, x, y, hullx, hully, nh, i, windowed,
              npush, npop, result>>
viewvars == <<entries, current_spectrum_name, current_x, current_y, have_data,
              continuum_removal_flag, selected, plot_call, axes>>
vars == <<hullvars, turn, pair, viewvars>>

\* ------------------------------------------------------------- inputs
XVals == 0..MaxX
YVals == 0..MaxY
Lens == 0..MaxLen

StrictlyIncreasing(s) == \A k \in 1..(Len(s) - 1) : s[k] < s[k + 1]

SeqsOf(S, n) == [1..n -> S]

Full(n, v) == [k \in 1..n |-> v]

\* x is sorted and duplicate free (the callers' obligation)
XSeqs == {s \in UNION {SeqsOf(XVals, n) : n \in Lens} : StrictlyIncreasing(s)}

\* well-formed spectra: len(x) = len(y)
Spectra == UNION {{<<xs, ys>> : ys \in SeqsOf(YVals, Len(xs))} : xs \in XSeqs}

\* len(x) # len(y): the code reads only the lengths of such a pair, or (in the
\* mask of continuum_removal) a prefix of y, so y is a constant array
Mismatched == UNION {{<<xs, Full(m, v)>> : m \in Lens \ {Len(xs)}, v \in YVals} :
                     xs \in XSeqs}

\* the documented example: five points, upper hull x = [0,1,3,4], y = [0,2,2,0]
ScenarioA == <<<<0, 1, 2, 3, 4>>, <<0, 2, 1, 2, 0>>>>

Inputs == Spectra \cup Mismatched \cup {ScenarioA}

\* ------------------------------------------------------------- arithmetic
Sign(a) == IF a > 0 THEN 1 ELSE IF a < 0 THEN -1 ELSE 0
Abs(a) == IF a < 0 THEN -a ELSE a

\* p > q for fractions p = <<n, d>>, q with nonzero denominators
RatGT(p, q) == p[1] * Sign(p[2]) * Abs(q[2]) > q[1] * Sign(q[2]) * Abs(p[2])
RatGE(p, q) == p[1] * Sign(p[2]) * Abs(q[2]) >= q[1] * Sign(q[2]) * Abs(p[2])

\* Python indexing: 0-based, a negative index counts from the end
Idx(s, k) == IF k < 0 THEN s[Len(s) + k + 1] ELSE s[k + 1]
Put(s, k, v) == [j \in 1..Len(s) |-> IF j = k + 1 THEN v ELSE s[j]]

\* ------------------------------------------------------------- turn predicate
\* the float division raises ZeroDivisionError on a zero x difference
left_turn_raises(x1, y1, x2, y2, x3, y3) == x2 - x1 = 0 \/ x3 - x2 = 0

left_turn_strict_mutant(x1, y1, x2, y2, x3, y3) ==
    IF NaN \in {x1, y1, x2, y2, x3, y3} THEN FALSE
    ELSE RatGE(<<y3 - y2, x3 - x2>>, <<y2 - y1, x2 - x1>>)

left_turn_for_convex_hull(x1, y1, x2, y2, x3, y3) ==
    IF NaN \in {x1, y1, x2, y2, x3, y3}
    THEN FALSE      \* a comparison with nan is false
    ELSE LET slope1 == <<y2 - y1, x2 - x1>>
             slope2 == <<y3 - y2, x3 - x2>>
         IN  RatGT(slope2, slope1)

\* ------------------------------------------------------------- hull builder
NoResult == [kind |-> "none", x |-> <<>>, y |-> <<>>, c |-> <<>>]
Raised(e) == [kind |-> e, x |-> <<>>, y |-> <<>>, c |-> <<>>]
Returned(rx, ry, rc) == [kind |-> "ok", x |-> rx, y |-> ry, c |-> rc]

\* hullx[:nh]
Slice(s, n) == [j \in 1..n |-> s[j]]

UpperWhileCond_lower_mutant(hx, hy, n, xi, yi) ==
    /\ n >= 2
    /\ ~left_turn_for_convex_hull(Idx(hx, n - 2), Idx(hy, n - 2),
                                  Idx(hx, n - 1), Idx(hy, n - 1), xi, yi)

\* the while test of upper_convex_hull
UpperWhileCond(hx, hy, n, xi, yi) ==
    /\ n >= 2
    /\ left_turn_for_convex_hull(Idx(hx, n - 2), Idx(hy, n - 2),
                                 Idx(hx, n - 1), Idx(hy, n - 1), xi, yi)

LowerWhileCond_noguard_mutant(hx, hy, n, xi, yi) ==
    ~left_turn_for_convex_hull(Idx(hx, n - 2), Idx(hy, n - 2),
                               Idx(hx, n - 1), Idx(hy, n - 1), xi, yi)

LowerWhileCond_upper_mutant(hx, hy, n, xi, yi) ==
    /\ n >= 2
    /\ left_turn_for_convex_hull(Idx(hx, n - 2), Idx(hy, n - 2),
                                 Idx(hx, n - 1), Idx(hy, n - 1), xi, yi)

\* the while test of lower_convex_hull
LowerWhileCond(hx, hy, n, xi, yi) ==
    /\ n >= 2
    /\ ~left_turn_for_convex_hull(Idx(hx, n - 2), Idx(hy, n - 2),
                                  Idx(hx, n - 1), Idx(hy, n - 1), xi, yi)

\* the whole loop of upper_convex_hull, from the state (hx, hy, n, k)
RECURSIVE UpperLoop(_, _, _, _, _, _)
UpperLoop(xs, ys, hx, hy, n, k) ==
    IF k >= Len(xs) THEN [hullx |-> Slice(hx, n), hully |-> Slice(hy, n)]
    ELSE IF UpperWhileCond(hx, hy, n, Idx(xs, k), Idx(ys, k))
         THEN UpperLoop(xs, ys, hx, hy, n - 1, k)
         ELSE UpperLoop(xs, ys, Put(hx, n, Idx(xs, k)), Put(hy, n, Idx(ys, k)),
                        n + 1, k + 1)

\* upper_convex_hull as a function of its arguments
upper_convex_hull(xs, ys) ==
    LET n == Len(xs) IN
    IF n # Len(ys) THEN Raised("ShapeError")
    ELSE IF n <= 2 THEN Raised("SizeError")
    ELSE LET h == UpperLoop(xs, ys,
                            Put(Put(Full(n, NaN), 0, xs[1]), 1, xs[2]),
                            Put(Put(Full(n, NaN), 0, ys[1]), 1, ys[2]), 2, 2)
         IN  Returned(h.hullx, h.hully, <<>>)

\* original position (1-based) of the input point with wavelength v, 0 if none
PosOf(xs, v) == IF \E p \in 1..Len(xs) : xs[p] = v
                THEN CHOOSE p \in 1..Len(xs) : xs[p] = v
                ELSE 0

Fail(f, xs, ys, ct, w, e) ==
    /\ fn' = f /\ x' = xs /\ y' = ys /\ continuum_type' = ct /\ windowed' = w
    /\ hullx' = <<>> /\ hully' = <<>> /\ nh' = 0 /\ i' = 0
    /\ npush' = <<>> /\ npop' = <<>>
    /\ result' = Raised(e)
    /\ pc' = "done"

HullEntry_sizefirst_mutant(f, xs, ys, ct, w) ==
    LET n == Len(xs) IN
    IF n <= 2 THEN Fail(f, xs, ys, ct, w, "SizeError")
    ELSE IF n # Len(ys) THEN Fail(f, xs, ys, ct, w, "ShapeError")
    ELSE /\ fn' = f /\ x' = xs /\ y' = ys /\ continuum_type' = ct /\ windowed' = w
         /\ hullx' = Put(Put(Full(n, NaN), 0, xs[1]), 1, xs[2])
         /\ hully' = Put(Put(Full(n, NaN), 0, ys[1]), 1, ys[2])
         /\ nh' = 2 /\ i' = 2
         /\ npush' = [k \in 1..n |-> IF k <= 2 THEN 1 ELSE 0]
         /\ npop' = Full(n, 0)
         /\ result' = NoResult
         /\ pc' = "loop"

\* entry of upper_convex_hull / lower_convex_hull: the two checks, the buffers,
\* the two seed points, nh = 2 and the for loop's first index
HullEntry(f, xs, ys, ct, w) ==
    LET n == Len(xs) IN
    IF n # Len(ys) THEN Fail(f, xs, ys, ct, w, "ShapeError")
    ELSE IF n <= 2 THEN Fail(f, xs, ys, ct, w, "SizeError")
    ELSE /\ fn' = f /\ x' = xs /\ y' = ys /\ continuum_type' = ct /\ windowed' = w
         /\ hullx' = Put(Put(Full(n, NaN), 0, xs[1]), 1, xs[2])
         /\ hully' = Put(Put(Full(n, NaN), 0, ys[1]), 1, ys[2])
         /\ nh' = 2 /\ i' = 2
         /\ npush' = [k \in 1..n |-> IF k <= 2 THEN 1 ELSE 0]
         /\ npop' = Full(n, 0)
         /\ result' = NoResult
         /\ pc' = "loop"

\* one call per behaviour: every entry point is entered from the idle state
Callable == pc = "idle"

CallUpper ==
    /\ Callable
    /\ \E in \in Inputs : HullEntry("upper", in[1], in[2], "", FALSE)
    /\ UNCHANGED <<turn, pair, viewvars>>

CallLower ==
    /\ Callable
    /\ \E in \in Inputs : HullEntry("lower", in[1], in[2], "", FALSE)
    /\ UNCHANGED <<turn, pair, viewvars>>

LoopDone_short_mutant == i >= Len(x) - 1

\* for i in range(2, n): the loop is over
LoopDone == i >= Len(x)

WhileCond == IF fn = "lower"
             THEN LowerWhileCond(hullx, hully, nh, Idx(x, i), Idx(y, i))
             ELSE UpperWhileCond(hullx, hully, nh, Idx(x, i), Idx(y, i))

\* nh -= 1
Pop ==
    /\ pc = "loop" /\ ~LoopDone
    /\ WhileCond
    /\ nh' = nh - 1
    /\ npop' = LET p == PosOf(x, Idx(hullx, nh - 1))
               IN  IF p = 0 THEN npop ELSE [npop EXCEPT ![p] = @ + 1]
    /\ UNCHANGED <<pc, fn, continuum_type, x, y, hullx, hully, i, windowed,
                   npush, result, turn, pair, viewvars>>

\* hullx[nh] = x[i]; hully[nh] = y[i]; nh += 1; next i
Push ==
    /\ pc = "loop" /\ ~LoopDone
    /\ ~WhileCond
    /\ hullx' = Put(hullx, nh, Idx(x, i))
    /\ hully' = Put(hully, nh, Idx(y, i))
    /\ nh' = nh + 1
    /\ i' = i + 1
    /\ npush' = [npush EXCEPT ![i + 1] = @ + 1]
    /\ UNCHANGED <<pc, fn, continuum_type, x, y, windowed, npop, result,
                   turn, pair, viewvars>>

\* return hullx[:nh], hully[:nh]; continuum_removal binds them to its hullx, hully
HullReturn ==
    /\ pc = "loop" /\ LoopDone
    /\ IF fn = "cr"
       THEN /\ hullx' = Slice(hullx, nh) /\ hully' = Slice(hully, nh)
            /\ pc' = "interp"
            /\ UNCHANGED result
       ELSE /\ result' = Returned(Slice(hullx, nh), Slice(hully, nh), <<>>)
            /\ pc' = "done"
            /\ UNCHANGED <<hullx, hully>>
    /\ UNCHANGED <<fn, continuum_type, x, y, nh, i, windowed, npush, npop,
                   turn, pair, viewvars>>

\* ------------------------------------------------------------- continuum removal
\* -np.inf and np.inf as the viewer passes them: below and above every wavelength
NegInf == -1
PosInf == MaxX + 1
LeftBounds == NegInf..MaxX
RightBounds == 0..PosInf

\* positions (1-based) at which the boolean mask is true, in order
RECURSIVE TrueIdx(_, _)
TrueIdx(flag, k) ==
    IF k > Len(flag) THEN <<>>
    ELSE (IF flag[k] THEN <<k>> ELSE <<>>) \o TrueIdx(flag, k + 1)

Window_outer_mutant(xs, left_outer_x, left_inner_x, right_inner_x, right_outer_x) ==
    [k \in 1..Len(xs) |-> (left_outer_x <= xs[k]) /\ (xs[k] <= right_outer_x)]

\* flag = (x_min <= x) * (x <= x_max) with x_min, x_max the inner bounds
Window(xs, left_outer_x, left_inner_x, right_inner_x, right_outer_x) ==
    LET x_min == left_inner_x
        x_max == right_inner_x
    IN  [k \in 1..Len(xs) |-> (x_min <= xs[k]) /\ (xs[k] <= x_max)]

\* s[flag]; a read past the end of s (a mask longer than s) yields g
Mask(s, flag, g) ==
    LET t == TrueIdx(flag, 1)
    IN  [j \in 1..Len(t) |-> IF t[j] <= Len(s) THEN s[t[j]] ELSE g]

\* np.interp(xv, xp, fp) for increasing xp, as an exact fraction
Interp(xv, xp, fp) ==
    LET m == Len(xp) IN
    IF xv > xp[m] THEN <<fp[m], 1>>
    ELSE IF xv < xp[1] THEN <<fp[1], 1>>
    ELSE LET j == CHOOSE k \in 1..m : xp[k] <= xv /\ (k = m \/ xv < xp[k + 1])
         IN  IF j = m \/ xp[j] = xv THEN <<fp[j], 1>>
             ELSE <<(fp[j + 1] - fp[j]) * (xv - xp[j]) + fp[j] * (xp[j + 1] - xp[j]),
                    xp[j + 1] - xp[j]>>

\* c = np.interp(x, hullx, hully)
Continuum(xs, hx, hy) == [k \in 1..Len(xs) |-> Interp(xs[k], hx, hy)]

\* Cy = y/c elementwise; a zero denominator is inf or nan, no error
Ratio(ys, c) == [k \in 1..Len(ys) |-> <<ys[k] * c[k][2], c[k][1]>>]

\* continuum_removal as a function of its arguments, for equal-length x and y
continuum_removal(xs, ys, ct, left_outer_x, left_inner_x, right_inner_x, right_outer_x) ==
    IF ct = "uh"
    THEN LET flag == Window(xs, left_outer_x, left_inner_x, right_inner_x, right_outer_x)
             wx == Mask(xs, flag, 0)
             wy == Mask(ys, flag, 0)
             h == upper_convex_hull(wx, wy)
         IN  IF h.kind # "ok" THEN h
             ELSE LET c == Continuum(wx, h.x, h.y)
                  IN  Returned(wx, Ratio(wy, c), c)
    ELSE Raised("UnsupportedType")

CallCR_windowfirst_mutant(xs, ys, ct, lo, li, ri, ro, raise, g) ==
    LET flag == Window(xs, lo, li, ri, ro) IN
    IF ct = "uh"
    THEN IF Len(ys) # Len(xs) /\ raise
         THEN Fail("cr", Mask(xs, flag, 0), ys, ct, TRUE, "IndexError")
         ELSE HullEntry("cr", Mask(xs, flag, 0), Mask(ys, flag, g), ct, TRUE)
    ELSE Fail("cr", Mask(xs, flag, 0), ys, ct, TRUE, "UnsupportedType")

\* continuum_removal up to and including its call of upper_convex_hull.  With
\* len(y) # len(x) the mask does not fit y: the build either raises IndexError
\* (raise, at y[flag], after x = x[flag]) or indexes unchecked, reading g past
\* the end of y.
CallCR(xs, ys, ct, lo, li, ri, ro, raise, g) ==
    IF ct = "uh"
    THEN LET flag == Window(xs, lo, li, ri, ro) IN
         IF Len(ys) # Len(xs) /\ raise
         THEN Fail("cr", Mask(xs, flag, 0), ys, ct, TRUE, "IndexError")
         ELSE HullEntry("cr", Mask(xs, flag, 0), Mask(ys, flag, g), ct, TRUE)
    ELSE Fail("cr", xs, ys, ct, FALSE, "UnsupportedType")

\* the outer bounds are those of the viewer's call
CallContinuumRemoval ==
    /\ Callable
    /\ \E in \in Inputs, ct \in {"uh", "lh"}, li \in LeftBounds, ri \in RightBounds :
          IF Len(in[1]) = Len(in[2])
          THEN CallCR(in[1], in[2], ct, NegInf, li, ri, PosInf, FALSE, 0)
          ELSE \E raise \in BOOLEAN, g \in YVals :
                  CallCR(in[1], in[2], ct, NegInf, li, ri, PosInf, raise, g)
    /\ UNCHANGED <<turn, pair, viewvars>>

\* c = np.interp(x, hullx, hully); Cy = y/c; return x, Cy, c
Interpolate ==
    /\ pc = "interp"
    /\ LET c == Continuum(x, hullx, hully)
       IN  result' = Returned(x, Ratio(y, c), c)
    /\ pc' = "done"
    /\ UNCHANGED <<fn, continuum_type, x, y, hullx, hully, nh, i, windowed,
                   npush, npop, turn, pair, viewvars>>

\* ------------------------------------------------------------- specification
NoTurn == [called |-> FALSE, x1 |-> 0, y1 |-> 0, x2 |-> 0, y2 |-> 0, x3 |-> 0,
           y3 |-> 0, raised |-> FALSE, flag |-> FALSE]
NoPair == [called |-> FALSE, x |-> <<>>, y |-> <<>>, ct |-> "", li |-> 0, ri |-> 0,
           lo |-> 0, ro |-> 0, first |-> NoResult, second |-> NoResult]
NoPlot == [called |-> FALSE, entry_name |-> 0, x |-> <<>>, y |-> <<>>]
NoAxes == [title |-> 0, x |-> <<>>, y |-> <<>>, removed |-> FALSE]

HullInit ==
    /\ pc = "idle" /\ fn = "" /\ continuum_type = ""
    /\ x = <<>> /\ y = <<>> /\ hullx = <<>> /\ hully = <<>>
    /\ nh = 0 /\ i = 0 /\ windowed = FALSE
    /\ npush = <<>> /\ npop = <<>>
    /\ result = NoResult

ViewIdle ==
    /\ entries = {}
    /\ current_spectrum_name = 0
    /\ current_x = <<>> /\ current_y = <<>> /\ have_data = FALSE
    /\ continuum_removal_flag = FALSE
    /\ selected = 0
    /\ plot_call = NoPlot
    /\ axes = NoAxes

Init == HullInit /\ turn = NoTurn /\ pair = NoPair /\ ViewIdle

Next ==
    \/ CallUpper
    \/ CallLower
    \/ CallContinuumRemoval
    \/ Pop
    \/ Push
    \/ HullReturn
    \/ Interpolate

Spec == Init /\ [][Next]_vars

\* ------------------------------------------------------------- turn predicate alone
\* one call of left_turn_for_convex_hull on six scalars, in any x order
CallLeftTurn ==
    /\ ~turn.called
    /\ \E x1 \in XVals, x2 \in XVals, x3 \in XVals,
          y1 \in YVals, y2 \in YVals, y3 \in YVals :
          turn' = [called |-> TRUE,
                   x1 |-> x1, y1 |-> y1, x2 |-> x2, y2 |-> y2, x3 |-> x3, y3 |-> y3,
                   raised |-> left_turn_raises(x1, y1, x2, y2, x3, y3),
                   flag |-> IF left_turn_raises(x1, y1, x2, y2, x3, y3) THEN FALSE
                            ELSE left_turn_for_convex_hull(x1, y1, x2, y2, x3, y3)]
    /\ UNCHANGED <<hullvars, pair, viewvars>>

TurnSpec == Init /\ [][CallLeftTurn]_vars

\* ------------------------------------------------------------- two calls
\* continuum_removal twice on one spectrum with the same type and inner bounds:
\* first with the viewer's outer bounds, then with outer bounds lo, ro that
\* would change the window if the code read them
OuterBounds == {<<MaxX, 0>>, <<0, MaxX>>}

CallPair ==
    /\ ~pair.called
    /\ \E in \in Spectra \cup {ScenarioA}, ct \in {"uh", "lh"},
          li \in LeftBounds, ri \in RightBounds, o \in OuterBounds :
          pair' = [called |-> TRUE, x |-> in[1], y |-> in[2], ct |-> ct,
                   li |-> li, ri |-> ri, lo |-> o[1], ro |-> o[2],
                   first |-> continuum_removal(in[1], in[2], ct, NegInf, li, ri, PosInf),
                   second |-> continuum_removal(in[1], in[2], ct, o[1], li, ri, o[2])]
    /\ UNCHANGED <<hullvars, turn, viewvars>>

PairSpec == Init /\ [][CallPair]_vars

\* ------------------------------------------------------------- viewer
AllEntries == 1..NEntries

\* what db.get_spectrum returns for the sample of entry e: library content, one
\* distinct spectrum per entry, with a negative reflectance for the filter
DbSpectrum(e) == [x |-> <<0, 1, 2, 3>>, y |-> <<e, e + 1, 0 - 1, e>>]

\* flag = y >= 0; x, y = x[flag], y[flag]
FilterNonNegative(sp) ==
    LET flag == [k \in 1..Len(sp.y) |-> sp.y[k] >= 0]
    IN  [x |-> Mask(sp.x, flag, 0), y |-> Mask(sp.y, flag, 0)]

\* _plot_spectrum(entry_name, x, y) under the flag value f: an exception of
\* continuum_removal is caught before the axes are touched
PlotSpectrum(entry_name, px, py, f) ==
    /\ plot_call' = [called |-> TRUE, entry_name |-> entry_name, x |-> px, y |-> py]
    /\ IF f
       THEN LET r == continuum_removal(px, py, "uh", NegInf, NegInf, PosInf, PosInf)
            IN  IF r.kind = "ok"
                THEN axes' = [title |-> entry_name, x |-> r.x, y |-> r.y, removed |-> TRUE]
                ELSE UNCHANGED axes
       ELSE axes' = [title |-> entry_name, x |-> px, y |-> py, removed |-> FALSE]

\* the state after __init__: _load_database filled entries, or failed
ViewInit ==
    /\ entries \in {AllEntries, {}}
    /\ current_spectrum_name = 0
    /\ current_x = <<>> /\ current_y = <<>> /\ have_data = FALSE
    /\ continuum_removal_flag = FALSE
    /\ selected = 0
    /\ plot_call = NoPlot
    /\ axes = NoAxes

\* _load_and_plot_spectrum(entry_name); ok: db.get_spectrum did not raise
LoadAndPlot(entry_name, ok) ==
    IF entry_name \notin entries
    THEN UNCHANGED <<current_x, current_y, have_data, plot_call, axes>>
    ELSE IF ok
         THEN LET sp == FilterNonNegative(DbSpectrum(entry_name))
              IN  /\ current_x' = sp.x /\ current_y' = sp.y /\ have_data' = TRUE
                  /\ PlotSpectrum(entry_name, sp.x, sp.y, continuum_removal_flag)
         ELSE UNCHANGED <<current_x, current_y, have_data, plot_call, axes>>

\* the user selects another item of results_list: _on_selection_changed
OnSelectionChanged ==
    /\ \E e \in entries \ {selected}, ok \in BOOLEAN :
          /\ selected' = e
          /\ current_spectrum_name' = e
          /\ LoadAndPlot(e, ok)
    /\ UNCHANGED <<entries, continuum_removal_flag, hullvars, turn, pair>>

\* _update_search_results clears the list: the selection becomes empty and
\* _on_selection_changed returns at once
UpdateSearchResults ==
    /\ selected' = 0
    /\ UNCHANGED <<entries, current_spectrum_name, current_x, current_y, have_data,
                   continuum_removal_flag, plot_call, axes, hullvars, turn, pair>>

\* the checkbox changes state: _on_continuum_toggle
OnContinuumToggle ==
    /\ continuum_removal_flag' = ~continuum_removal_flag
    /\ IF current_spectrum_name # 0 /\ have_data
       THEN PlotSpectrum(current_spectrum_name, current_x, current_y,
                         ~continuum_removal_flag)
       ELSE UNCHANGED <<plot_call, axes>>
    /\ UNCHANGED <<entries, current_spectrum_name, current_x, current_y, have_data,
                   selected, hullvars, turn, pair>>

ViewNext ==
    \/ OnSelectionChanged
    \/ UpdateSearchResults
    \/ OnContinuumToggle

ViewerInit == HullInit /\ turn = NoTurn /\ pair = NoPair /\ ViewInit

ViewerSpec == ViewerInit /\ [][ViewNext]_vars

\* ============================================================= claims
HullDone == pc = "done" /\ fn \in {"upper", "lower"} /\ result.kind = "ok"
CRDone == pc = "done" /\ fn = "cr" /\ result.kind = "ok"

\* the fraction c is the value at xv of the chord through two consecutive hull points
OnChord(c, xv, hx, hy) ==
    \E j \in 1..(Len(hx) - 1) :
        /\ hx[j] <= xv /\ xv <= hx[j + 1]
        /\ c[1] * (hx[j + 1] - hx[j])
             = c[2] * (hy[j] * (hx[j + 1] - xv) + hy[j + 1] * (xv - hx[j]))

\* C1 (envelope): continuum_removal(x, y, 'uh', ...) returns whenever its
\* window has more than 2 points, and then the continuum c lies on the chords
\* of the upper hull at the window's x values, c[k] >= windowed_y[k] at every
\* window position, and ratio_y[k] <= 1 wherever c[k] > 0.
C1_Envelope ==
    /\ (fn = "cr" /\ continuum_type = "uh" /\ pc = "done" /\ Len(x) > 2
          /\ result.kind # "IndexError") => result.kind = "ok"
    /\ CRDone =>
        /\ Len(x) > 2
        /\ result.x = x
        /\ Len(result.c) = Len(x) /\ Len(result.y) = Len(x)
        /\ \A k \in 1..Len(x) :
              /\ result.c[k][2] > 0
              /\ OnChord(result.c[k], x[k], hullx, hully)
              /\ RatGE(result.c[k], <<y[k], 1>>)
              /\ RatGT(result.c[k], <<0, 1>>) => ~RatGT(result.y[k], <<1, 1>>)

\* a window point strictly below the continuum, between two hull points
C1_Witness ==
    /\ CRDone
    /\ \E k \in 1..Len(x) :
          /\ y[k] > 0
          /\ RatGT(result.c[k], <<y[k], 1>>)
          /\ result.c[k][2] > 1

\* (hx, hy) is a subsequence of the points (xs, ys) taken at strictly increasing
\* positions, from the first point to the last, with strictly increasing x
SubsequenceOf(hx, hy, xs, ys) ==
    /\ Len(hx) = Len(hy) /\ Len(hx) >= 2
    /\ \A k \in 1..Len(hx) :
          /\ PosOf(xs, hx[k]) # 0
          /\ ys[PosOf(xs, hx[k])] = hy[k]
    /\ \A k \in 1..(Len(hx) - 1) : PosOf(xs, hx[k]) < PosOf(xs, hx[k + 1])
    /\ StrictlyIncreasing(hx)
    /\ PosOf(xs, hx[1]) = 1
    /\ PosOf(xs, hx[Len(hx)]) = Len(xs)

\* C2 (subsequence and monotonicity): the hull returned by upper_convex_hull
\* and by lower_convex_hull for n > 2 points is a subsequence of the input
\* points at strictly increasing positions, strictly increasing in x, from
\* input point 0 to input point n-1; x=[0,1,2,3,4], y=[0,2,1,2,0] gives the
\* upper hull x=[0,1,3,4], y=[0,2,2,0].
C2_Subsequence ==
    HullDone =>
        /\ Len(x) > 2
        /\ SubsequenceOf(result.x, result.y, x, y)
        /\ (fn = "upper" /\ x = ScenarioA[1] /\ y = ScenarioA[2])
              => (result.x = <<0, 1, 3, 4>> /\ result.y = <<0, 2, 2, 0>>)

C2_Witness ==
    /\ HullDone /\ fn = "upper"
    /\ x = ScenarioA[1] /\ y = ScenarioA[2]
    /\ result.x = <<0, 1, 3, 4>>

Collinear3(xs, ys) ==
    (ys[2] - ys[1]) * (xs[3] - xs[2]) = (ys[3] - ys[2]) * (xs[2] - xs[1])

\* C3 (collinearity): for three exactly collinear input points with strictly
\* increasing x, upper_convex_hull and lower_convex_hull return exactly two
\* hull points, the first and the last.
C3_CollinearDropped ==
    (HullDone /\ Len(x) = 3 /\ Collinear3(x, y)) =>
        /\ result.x = <<x[1], x[3]>>
        /\ result.y = <<y[1], y[3]>>

\* C4 (convexity): in the hull returned by upper_convex_hull no three
\* consecutive points form a left turn; in the hull returned by
\* lower_convex_hull every three consecutive points form a left turn.
C4_Convex ==
    HullDone =>
        \A k \in 1..(Len(result.x) - 2) :
            LET lt == left_turn_for_convex_hull(
                          result.x[k], result.y[k],
                          result.x[k + 1], result.y[k + 1],
                          result.x[k + 2], result.y[k + 2])
            IN  IF fn = "upper" THEN ~lt ELSE lt

\* a lower hull with an interior point, left after a deletion
C4_Witness ==
    /\ HullDone /\ fn = "lower"
    /\ Len(result.x) >= 3
    /\ Len(result.x) < Len(x)

\* C5 (precondition errors): a hull call fails with the length error whenever
\* len(x) # len(y), with the size error whenever len(x) = len(y) <= 2, in
\* both cases without a hull, and returns a hull exactly when
\* len(x) = len(y) > 2; the size error also ends continuum_removal when the
\* window has 2 or fewer points.
C5_Errors ==
    /\ (fn \in {"upper", "lower"}) =>
          /\ (Len(x) # Len(y)) =>
                (pc = "done" /\ result = Raised("ShapeError") /\ hullx = <<>>)
          /\ (Len(x) = Len(y) /\ Len(x) <= 2) =>
                (pc = "done" /\ result = Raised("SizeError") /\ hullx = <<>>)
          /\ (Len(x) = Len(y) /\ Len(x) > 2) =>
                /\ pc \in {"loop", "done"}
                /\ (pc = "loop") => result = NoResult
                /\ (pc = "done") => (result.kind = "ok" /\ Len(result.x) >= 2)
    /\ (fn = "cr" /\ continuum_type = "uh" /\ result.kind # "IndexError"
          /\ Len(x) <= 2) =>
          (pc = "done" /\ result = Raised("SizeError"))

\* a length error although both lengths are at most 2
C5_Witness ==
    /\ fn = "lower" /\ Len(x) = 1 /\ Len(y) = 2
    /\ result = Raised("ShapeError")

\* C6 (unsupported type): continuum_removal with a type other than 'uh' fails
\* with the unsupported-type error for every x, y and bounds, having done no
\* windowing and no hull computation.
C6_Unsupported ==
    (fn = "cr" /\ continuum_type # "uh") =>
        /\ pc = "done"
        /\ result = Raised("UnsupportedType")
        /\ ~windowed
        /\ hullx = <<>> /\ hully = <<>> /\ nh = 0
        /\ npush = <<>> /\ npop = <<>>

\* type 'lh' on arrays of different lengths
C6_Witness ==
    /\ fn = "cr" /\ continuum_type = "lh"
    /\ Len(x) # Len(y) /\ Len(x) > 2
    /\ result = Raised("UnsupportedType")

\* the window: the positions k with left_inner <= x[k] <= right_inner
WindowPositions(xs, li, ri) == {k \in 1..Len(xs) : li <= xs[k] /\ xs[k] <= ri}

\* C7 (outer bounds are inert): for a spectrum (len(x) = len(y)) the window is
\* exactly the points with left_inner <= x <= right_inner, in their order,
\* and two calls that differ only in the outer bounds have the same outcome.
C7_OuterInert ==
    pair.called =>
        /\ pair.first = pair.second
        /\ (pair.ct = "uh") =>
              LET w == WindowPositions(pair.x, pair.li, pair.ri) IN
              IF Cardinality(w) <= 2
              THEN pair.first = Raised("SizeError")
              ELSE /\ pair.first.kind = "ok"
                   /\ Len(pair.first.x) = Cardinality(w)
                   /\ StrictlyIncreasing(pair.first.x)
                   /\ \A j \in 1..Len(pair.first.x) :
                         \E k \in w :
                            /\ pair.first.x[j] = pair.x[k]
                            /\ pair.first.y[j][1] = pair.y[k] * pair.first.c[j][2]
                            /\ pair.first.y[j][2] = pair.first.c[j][1]

\* a window cut at both ends, and a second call whose outer bounds exclude
\* every point
C7_Witness ==
    /\ pair.called /\ pair.ct = "uh"
    /\ pair.lo = MaxX /\ pair.ro = 0
    /\ pair.second.kind = "ok"
    /\ Len(pair.second.x) + 2 <= Len(pair.x)
    /\ pair.second.x[1] # pair.x[1]

\* the cross-product sign test on the six scalars of the call
CrossTurn(t) == (t.x2 - t.x1) * (t.y3 - t.y2) - (t.y2 - t.y1) * (t.x3 - t.x2) > 0

RECURSIVE SumSeq(_)
SumSeq(s) == IF s = <<>> THEN 0 ELSE s[1] + SumSeq(Tail(s))

\* what is left of the loop: strictly smaller after every deletion and every append
LoopMeasure == 2 * (Len(x) - i) + nh

\* C9, the state part: in the hull loop 1 <= nh <= i <= n, so the reads at
\* nh-2 and nh-1 and the write at nh stay inside the n-element buffers; the
\* points before i have been written once, the others not yet; no point is
\* deleted twice, point 0 never; the deletions number i - nh, at most n - 2;
\* and the loop can always take its next step.
C9_LoopInvariant ==
    (pc \in {"loop", "interp"} \/ (pc = "done" /\ result.kind = "ok")) =>
        LET n == Len(x) IN
        /\ 2 <= i /\ i <= n
        /\ 1 <= nh /\ nh <= i
        /\ (pc = "loop") => (Len(hullx) = n /\ Len(hully) = n)
        /\ (pc = "loop" /\ i < n) => nh + 1 <= n
        /\ \A p \in 1..n : npush[p] = (IF p <= i THEN 1 ELSE 0)
        /\ \A p \in 1..n : npop[p] <= npush[p]
        /\ npop[1] = 0
        /\ SumSeq(npop) = i - nh
        /\ SumSeq(npop) <= n - 2
        /\ (pc = "loop") => ENABLED (Pop \/ Push \/ HullReturn)
        /\ (pc # "loop") => (i = n /\ SumSeq(npop) = n - nh)

\* C9 (bounded stack work and termination): the state part holds throughout,
\* and every step of the loop decreases the measure 2(n - i) + nh, which is
\* never negative, so the loop ends after at most 2n - 4 steps.
C9_BoundedWork ==
    /\ []C9_LoopInvariant
    /\ [][(pc = "loop" /\ pc' = "loop") =>
              (LoopMeasure' < LoopMeasure /\ LoopMeasure' >= 0)]_vars

\* a loop that deleted n - 2 points: every point but the first and the last
C9_Witness ==
    /\ HullDone
    /\ Len(x) >= 4
    /\ SumSeq(npop) = Len(x) - 2
    /\ nh = 2

\* C10 (viewer consistency): every call of _plot_spectrum gets an entry name
\* and (x, y) data of the same spectrum.
C10_PlotConsistent ==
    plot_call.called =>
        LET sp == FilterNonNegative(DbSpectrum(plot_call.entry_name))
        IN  plot_call.x = sp.x /\ plot_call.y = sp.y

====
